---------------------------- MODULE Spec2Model ----------------------------
(***************************************************************************)
(* A model of rhelpa/kraken-bot: the dip-buy trading loop of kraken-bot.py *)
(* (the monolith), the decision engine of strategy.py with execution.py    *)
(* (the modular rewrite), the FIFO history replay of exchange_client.py    *)
(* and the wallet reconciliation of ledger.py.                             *)
(*                                                                         *)
(* Units.  Prices are whole dollars.  Stop and target prices are kept in   *)
(* thousandths of a dollar (a price p is compared as p * Milli), so that   *)
(* peak * 0.99, entry * 0.01 * 1.5 and atr * 1.5 are exact.  Quantities    *)
(* are whole lots in the trading loop and multiples of the reconciliation  *)
(* tolerance (1e-8) in the reconciliation.  An average cost is a fraction  *)
(* [num, den], compared by cross multiplication: the code's division is    *)
(* modelled exactly and never as the identity.                             *)
(***************************************************************************)
EXTENDS Integers, Sequences, FiniteSets, TLC

VARIABLES
    \* ---- the trading loop (kraken-bot.py; strategy.py with its caller) ----
    impl,         \* which program runs: "mono" (kraken-bot.py) or "mod" (strategy.py)
    nsyms,        \* the length of the configured SYMBOLS list
    pc,           \* where the loop is: "start", "scan", "maint", "failed", "stopped"
    idx,          \* the symbol index the running for-loop has reached
    cycle,        \* cycles started so far
    positions,    \* symbol -> NoPos or [entry, amount, sl, tp]
    peak_cache,   \* symbol -> NoPeak or the highest price seen (strategy.py)
    last_price,   \* symbol -> the price the dip test compares against
    cash,         \* free USD as tracked within the cycle
    equity,       \* cash + wallet value, computed at the start of the cycle
    open_n,       \* the open-position count as tracked within the cycle
    tradeable,    \* the symbols that passed this cycle's filters
    depth_ema,    \* symbol -> DepthUnset or the smoothed book depth x DepthScale
    fetched,      \* the loop's latest fetch_price: the locals s / sym and price,
                  \* and the book total update_depth_ema summed for it (scan)
    event,        \* what the last step did (an observation, read by the claims)
    sigint,       \* whether a KeyboardInterrupt has been raised in the loop
    \* ---- FIFO replay (open_position_from_history) ----
    trades,       \* the fills fetch_all_trades returned, sorted by timestamp
    t_next,       \* index of the next fill the for-loop processes
    inventory,    \* the lot queue: a sequence of <<qty, price>>
    hist_result,  \* what the function returned, NoResult until it returns
    \* ---- reconcile_wallet ----
    rec_in,       \* the arguments of one call
    rec_out,      \* its outcome, NoResult until the call is made
    \* ---- the sizing helpers (_round_qty, pos_size) ----
    calc_in,      \* which helper is called, and its arguments
    calc_out,     \* what it returned, NoResult until the call is made
    \* ---- fetch_all_trades ----
    ledger,       \* the fills the exchange holds for the symbol, as it serves them
    pager,        \* the loop of one call: its program, requests made, ofs, ...
    page_out      \* what the call returned, NoResult until it returns

tradeVars == <<impl, nsyms, pc, idx, cycle, positions, peak_cache, last_price, cash,
               equity, open_n, tradeable, depth_ema, fetched, event, sigint>>
fifoVars  == <<trades, t_next, inventory, hist_result>>
recVars   == <<rec_in, rec_out>>
calcVars  == <<calc_in, calc_out>>
pageVars  == <<ledger, pager, page_out>>
vars      == <<tradeVars, fifoVars, recVars, calcVars, pageVars>>

NoResult == [kind |-> "none"]

Max(a, b) == IF a >= b THEN a ELSE b
Min(a, b) == IF a <= b THEN a ELSE b
Abs(a)    == IF a >= 0 THEN a ELSE -a

(***************************************************************************)
(* Fractions: the value num / den of a division the code performs.         *)
(***************************************************************************)
Frac(n, d)   == [num |-> n, den |-> d]
FracEq(a, b) == a.num * b.den = b.num * a.den

(***************************************************************************)
(*                    FIFO replay of the trade history                     *)
(***************************************************************************)
MaxFills == 3

FillQtys  == {5, 10, 12}
BuyFills  == [side : {"buy"},  amount : FillQtys, price : {100, 110}]
SellFills == [side : {"sell"}, amount : FillQtys, price : {120}]
Fills     == BuyFills \cup SellFills

Histories == UNION {[1..n -> Fills] : n \in 0..MaxFills}

RECURSIVE SumQty(_)
SumQty(inv) == IF inv = <<>> THEN 0 ELSE inv[1][1] + SumQty(Tail(inv))

RECURSIVE SumCost(_)
SumCost(inv) == IF inv = <<>> THEN 0 ELSE inv[1][1] * inv[1][2] + SumCost(Tail(inv))

\* A mutant of ConsumeFront: the remainder of a sell is dropped after the first
\* lot it pops instead of being carried to the next lot.
RECURSIVE ConsumeFrontOneLot(_, _)
ConsumeFrontOneLot(inv, rem) ==
    IF rem > 0 /\ inv # <<>>
    THEN IF inv[1][1] > rem
         THEN <<(<<inv[1][1] - rem, inv[1][2]>>)>> \o Tail(inv)
         ELSE Tail(inv)
    ELSE inv

\* A mutant of ConsumeFront: the sell is matched against the newest lot first.
RECURSIVE ConsumeBack(_, _)
ConsumeBack(inv, rem) ==
    IF rem > 0 /\ inv # <<>>
    THEN LET n == Len(inv) IN
         IF inv[n][1] > rem
         THEN SubSeq(inv, 1, n - 1) \o <<(<<inv[n][1] - rem, inv[n][2]>>)>>
         ELSE ConsumeBack(SubSeq(inv, 1, n - 1), rem - inv[n][1])
    ELSE inv

\* A mutant of ConsumeFront: a lot as large as the rest of the sell is
\* reduced in place, not popped.
RECURSIVE ConsumeFrontKeepLot(_, _)
ConsumeFrontKeepLot(inv, rem) ==
    IF rem > 0 /\ inv # <<>>
    THEN IF inv[1][1] >= rem
         THEN <<(<<inv[1][1] - rem, inv[1][2]>>)>> \o Tail(inv)
         ELSE ConsumeFrontKeepLot(Tail(inv), rem - inv[1][1])
    ELSE inv

\* The while loop of a sell: `while rem > 0 and inventory`.
RECURSIVE ConsumeFront(_, _)
ConsumeFront(inv, rem) ==
    IF rem > 0 /\ inv # <<>>
    THEN IF inv[1][1] > rem
         THEN <<(<<inv[1][1] - rem, inv[1][2]>>)>> \o Tail(inv)
         ELSE ConsumeFront(Tail(inv), rem - inv[1][1])
    ELSE inv

SellLots(inv, rem) == ConsumeFront(inv, rem)

\* The value returned after the loop: (total_qty, total_cost / total_qty), and
\* (total_qty, 0) when nothing is left.
HistoryResult(inv) ==
    LET total_qty  == SumQty(inv)
        total_cost == SumCost(inv)
    IN  [kind |-> "ok",
         qty  |-> total_qty,
         avg  |-> IF total_qty # 0 THEN Frac(total_cost, total_qty) ELSE Frac(0, 1)]

\* The whole function on a sorted fill list, for callers that need its value.
RECURSIVE ReplayAll(_, _)
ReplayAll(ts, inv) ==
    IF ts = <<>> THEN inv
    ELSE IF ts[1].side = "buy"
         THEN ReplayAll(Tail(ts), Append(inv, <<ts[1].amount, ts[1].price>>))
         ELSE ReplayAll(Tail(ts), SellLots(inv, ts[1].amount))

OpenPositionFromHistory(ts) == HistoryResult(ReplayAll(ts, <<>>))

FifoIdle ==
    trades = <<>> /\ t_next = 1 /\ inventory = <<>> /\ hist_result = NoResult

RecIdle ==
    rec_in = NoResult /\ rec_out = NoResult

CalcIdle ==
    calc_in = NoResult /\ calc_out = NoResult

PageIdle ==
    ledger = <<>> /\ pager = NoResult /\ page_out = NoResult

TradeIdle ==
    /\ impl = "none" /\ nsyms = 0 /\ pc = "start" /\ idx = 1 /\ cycle = 0
    /\ positions = <<>> /\ peak_cache = <<>> /\ last_price = <<>>
    /\ cash = 0 /\ equity = 0 /\ open_n = 0 /\ tradeable = {}
    /\ depth_ema = <<>> /\ fetched = [sym |-> 0, price |-> 0, total |-> 0]
    /\ event = [kind |-> "none"]
    /\ sigint = FALSE

InitFifo ==
    /\ trades \in Histories
    /\ t_next = 1
    /\ inventory = <<>>
    /\ hist_result = NoResult
    /\ RecIdle
    /\ TradeIdle
    /\ CalcIdle
    /\ PageIdle

ReplayBuy ==
    /\ hist_result = NoResult
    /\ t_next <= Len(trades)
    /\ trades[t_next].side = "buy"
    /\ inventory' = Append(inventory, <<trades[t_next].amount, trades[t_next].price>>)
    /\ t_next' = t_next + 1
    /\ UNCHANGED <<trades, hist_result, tradeVars, recVars, calcVars, pageVars>>

ReplaySell ==
    /\ hist_result = NoResult
    /\ t_next <= Len(trades)
    /\ trades[t_next].side # "buy"
    /\ inventory' = SellLots(inventory, trades[t_next].amount)
    /\ t_next' = t_next + 1
    /\ UNCHANGED <<trades, hist_result, tradeVars, recVars, calcVars, pageVars>>

ReplayReturn ==
    /\ hist_result = NoResult
    /\ t_next > Len(trades)
    /\ hist_result' = HistoryResult(inventory)
    /\ UNCHANGED <<trades, t_next, inventory, tradeVars, recVars, calcVars, pageVars>>

(***************************************************************************)
(*                            reconcile_wallet                             *)
(***************************************************************************)
DecTol == 1

MaxRecQty == 12

RecQtys   == 0..MaxRecQty
RecPrices == {0, 100, 130}

\* A mutant of ReconcileWallet: the zero-spot test is made before the
\* tolerance test.
ReconcileWalletSpotFirst(wallet_qty, hist_qty, hist_entry, spot, tol) ==
    LET delta_qty == wallet_qty - hist_qty IN
    IF spot = 0
    THEN [kind |-> "ok", qty |-> hist_qty, avg |-> Frac(hist_entry, 1)]
    ELSE IF Abs(wallet_qty - hist_qty) <= tol
    THEN [kind |-> "ok", qty |-> wallet_qty, avg |-> Frac(hist_entry, 1)]
    ELSE IF wallet_qty = 0
    THEN [kind |-> "raise"]
    ELSE [kind |-> "ok", qty |-> wallet_qty,
          avg |-> Frac(hist_qty * hist_entry + delta_qty * spot, wallet_qty)]

\* reconcile_wallet(sym, wallet_qty, hist_qty, hist_entry, spot, tol=DEC_TOL).
\* The division cost_basis / wallet_qty is a Decimal division: it raises when
\* wallet_qty is zero.
ReconcileWallet(wallet_qty, hist_qty, hist_entry, spot, tol) ==
    LET delta_qty == wallet_qty - hist_qty IN
    IF Abs(wallet_qty - hist_qty) <= tol
    THEN [kind |-> "ok", qty |-> wallet_qty, avg |-> Frac(hist_entry, 1)]
    ELSE IF spot = 0
    THEN [kind |-> "ok", qty |-> hist_qty, avg |-> Frac(hist_entry, 1)]
    ELSE IF wallet_qty = 0
    THEN [kind |-> "raise"]
    ELSE [kind |-> "ok", qty |-> wallet_qty,
          avg |-> Frac(hist_qty * hist_entry + delta_qty * spot, wallet_qty)]

InitRec ==
    /\ rec_in \in [wallet_qty : RecQtys, hist_qty : RecQtys,
                   hist_entry : RecPrices, spot : RecPrices]
    /\ rec_out = NoResult
    /\ FifoIdle
    /\ TradeIdle
    /\ CalcIdle
    /\ PageIdle

Reconcile ==
    /\ rec_out = NoResult
    /\ rec_out' = ReconcileWallet(rec_in.wallet_qty, rec_in.hist_qty,
                                  rec_in.hist_entry, rec_in.spot, DecTol)
    /\ UNCHANGED <<rec_in, tradeVars, fifoVars, calcVars, pageVars>>

(***************************************************************************)
(*                   The trading loop: shared definitions                  *)
(***************************************************************************)
NumSyms  == 3
\* No cycle is started once pairs * cycles would pass this many symbol scans.
MaxScans == 3

\* The lot step of every instrument, the unit of a quantity.
MinLot == 1

Syms == 1..nsyms

Milli == 10 * 100

MAX_OPEN       == 2
MIN_USD_EXPOS  == 10
MIN_BOOK_UNITS == 50
TRAIL_PCT      == 1
SlAtrTenths    == 15
TpAtrTenths    == 30
DipPctMono     == 95
RiskPctMono    == 2

\* One candle: its high, low and close.
Bar(h, l, c) == [high |-> h, low |-> l, close |-> c]

\* The true range of a candle after the candle prev.
TrueRange(prev, cur) ==
    Max(cur.high - cur.low,
        Max(Abs(cur.high - prev.close), Abs(cur.low - prev.close)))

RECURSIVE SumTrueRange(_)
SumTrueRange(ohlc) ==
    IF Len(ohlc) < 2 THEN 0
    ELSE TrueRange(ohlc[1], ohlc[2]) + SumTrueRange(Tail(ohlc))

\* A mutant of Atr: a single candle gives its own range.
AtrOneBar(ohlc) ==
    IF ohlc = <<>> THEN 0
    ELSE IF Len(ohlc) < 2 THEN ohlc[1].high - ohlc[1].low
    ELSE SumTrueRange(ohlc) \div (Len(ohlc) - 1)

\* atr(sym): 0 with fewer than 2 candles, else the mean of the true ranges
\* (a whole number for every series of the model).
Atr(ohlc) ==
    IF Len(ohlc) < 2 THEN 0
    ELSE SumTrueRange(ohlc) \div (Len(ohlc) - 1)

\* The candles fetch_ohlcv may answer: none, one, a flat market, and two
\* series with a mean true range of 2.
BarSeries ==
    { <<>>,
      <<Bar(101, 99, 100)>>,
      <<Bar(100, 100, 100), Bar(100, 100, 100)>>,
      <<Bar(101, 99, 100), Bar(101, 99, 100)>>,
      <<Bar(100, 100, 100), Bar(101, 100, 100), Bar(103, 100, 101)>> }

\* What the gateway may answer.
AtrVals     == {Atr(ohlc) : ohlc \in BarSeries}
Prices      == {0, 90, 95, 100}
InitPrices  == {100}
EmaVals     == {0, 90, 110}
CashVals    == {90, 1000}
WalletVals  == {0, 1000}
HeldVals    == {0, 10}
FreeVals    == {0, 5, 10}
DepthTotals == {40, 90}
AdoptHistories == { <<>>, << [side |-> "buy", amount |-> 10, price |-> 90] >> }

NoPos      == [kind |-> "none"]
NoPeak     == -1
DepthUnset == -1
DepthScale == 5 ^ MaxScans

OpenCount(ps) == Cardinality({s \in Syms : ps[s] # NoPos})

NoEvent == [kind |-> "none"]

\* No price has been fetched in the cycle.
NoFetch == [sym |-> 0, price |-> 0, total |-> 0]

\* No volatility was read.
NoVol == -1

\* The record of the latest evaluation of a symbol: the cycle, the price
\* fetched, the last_price, open count and cash it was decided on, whether the
\* wallet check dropped the position first, the branch taken ("entry", "exit",
\* "none"), the orders or TradeActions it came to, what became of them at the
\* exchange ("none" while unsent, "ok", "failed", "raise"), the trend average
\* read (0 when unread), the stop after the ratchet and the target of the
\* position evaluated (0 when none), and the rejection reasons; vol is the
\* atr the entry was sized with, NoVol when atr was not called; sold is the
\* quantity safe_limit_sell put into the order it placed (0 when none).
Ev(sym, price, n, csh, dropped, branch, actions, exec, ema, sl, tp, reasons) ==
    [kind |-> "eval", cycle |-> cycle, sym |-> sym, price |-> price,
     last |-> last_price[sym], open_n |-> n, cash |-> csh,
     dropped |-> dropped, branch |-> branch, actions |-> actions,
     exec |-> exec, ema |-> ema, sl |-> sl, tp |-> tp, reasons |-> reasons,
     vol |-> NoVol, sold |-> 0]

Action(side, qty, tag) == [side |-> side, qty |-> qty, tag |-> tag]

\* TradeAction("buy", sym, qty, price, tag="entry", tp=tp, sl=sl)
EntryAction(qty, sl, tp) ==
    [side |-> "buy", qty |-> qty, tag |-> "entry", sl |-> sl, tp |-> tp]

FracMin(a, b) == IF a.num * b.den <= b.num * a.den THEN a ELSE b

\* A mutant of FloorLots: the quantity is rounded up to the lot size.
FloorLotsUp(q) == ((q.num + q.den * MinLot - 1) \div (q.den * MinLot)) * MinLot

\* A mutant of RoundQty: the quantity is rounded to the nearest lot.
RoundQtyNearest(q, lot) == ((2 * q.num + q.den * lot) \div (2 * q.den * lot)) * lot

\* _round_qty(qty, minlot): steps = qty / minlot cut to a whole number,
\* times minlot.  The quantity is the fraction q, the lot step a whole
\* number of the same unit.
RoundQty(q, lot) == (q.num \div (q.den * lot)) * lot

\* floor(q / minlot) * minlot
FloorLots(q) == RoundQty(q, MinLot)

\* A mutant of PosSize: a stop at the entry is sized as a distance of one.
PosSizeZeroDistance(entry, stop, eq, risk_pct) ==
    LET unit == Abs(entry - stop) IN
    IF unit = 0 THEN Frac(eq * risk_pct, 100)
    ELSE Frac(eq * risk_pct * Milli, 100 * unit)

\* A mutant of PosSize: the risk is divided by the stop, not by the distance.
PosSizeByStop(entry, stop, eq, risk_pct) ==
    LET unit == Abs(entry - stop) IN
    IF unit = 0 THEN Frac(0, 1) ELSE Frac(eq * risk_pct * Milli, 100 * stop)

\* pos_size(entry, stop, equity) with RISK_FRAC = risk_pct / 100; entry and
\* stop in thousandths.
PosSize(entry, stop, eq, risk_pct) ==
    LET unit == Abs(entry - stop) IN
    IF unit = 0 THEN Frac(0, 1) ELSE Frac(eq * risk_pct * Milli, 100 * unit)

\* A mutant of DepthUpdate: the first update starts the average from zero.
DepthUpdateFromZero(prev, total) ==
    LET p == IF prev = DepthUnset THEN 0 ELSE prev
    IN  (total * DepthScale + 4 * p) \div 5

\* update_depth_ema: prev = the stored value, or total on the first update;
\* stored := alpha * total + (1 - alpha) * prev with alpha = 0.2.
DepthUpdate(prev, total) ==
    LET p == IF prev = DepthUnset THEN total * DepthScale ELSE prev
    IN  (total * DepthScale + 4 * p) \div 5

\* The next symbol of the list `tradeable` at or after index i, 0 when none.
NextTradeable(i) ==
    IF \E s \in tradeable : s >= i
    THEN CHOOSE s \in tradeable : s >= i /\ \A r \in tradeable : r >= i => s <= r
    ELSE 0

(***************************************************************************)
(*                     kraken-bot.py: the monolith                         *)
(***************************************************************************)
\* A mutant of AdoptMono: the value of the wallet is not looked at.
AdoptMonoNoDust(held, price, hist, a) ==
    LET h == OpenPositionFromHistory(hist) IN
    IF h.qty # 0
    THEN LET entry == (h.avg.num * Milli) \div h.avg.den
             vol   == IF a # 0 THEN a * Milli ELSE entry \div 100
         IN  [entry |-> entry, amount |-> h.qty,
              sl |-> entry - (vol * SlAtrTenths) \div 10,
              tp |-> entry + (vol * TpAtrTenths) \div 10]
    ELSE NoPos

\* Initial wallet adoption of one symbol.
AdoptMono(held, price, hist, a) ==
    LET h == OpenPositionFromHistory(hist) IN
    IF held * price >= MIN_USD_EXPOS /\ h.qty # 0
    THEN LET entry == (h.avg.num * Milli) \div h.avg.den
             vol   == IF a # 0 THEN a * Milli ELSE entry \div 100
         IN  [entry |-> entry, amount |-> h.qty,
              sl |-> entry - (vol * SlAtrTenths) \div 10,
              tp |-> entry + (vol * TpAtrTenths) \div 10]
    ELSE NoPos

\* A mutant of ScanReasonsMono: the book depth is not looked at.
ScanReasonsMonoNoDepth(active, price, csh, last, depth) ==
    (IF ~active \/ price = 0 THEN {"inactive"} ELSE {})
    \cup (IF csh < MinLot * price THEN {"cash<min"} ELSE {})
    \cup (IF price * 100 > last * DipPctMono THEN {"no-dip"} ELSE {})

\* The reasons of the tradeable scan; the depth average is the updated one.
ScanReasonsMono(active, price, csh, last, depth) ==
    (IF ~active \/ price = 0 THEN {"inactive"} ELSE {})
    \cup (IF csh < MinLot * price THEN {"cash<min"} ELSE {})
    \cup (IF price * 100 > last * DipPctMono THEN {"no-dip"} ELSE {})
    \cup (IF depth < MIN_BOOK_UNITS * DepthScale THEN {"thin-book"} ELSE {})

\* `held < minlot` clears the position before anything else.
WalletDrop(pos, held) == pos # NoPos /\ held < MinLot

\* A mutant of MaxOpenGuard: the guard admits one position too many.
MaxOpenGuardOffByOne(n) == n <= MAX_OPEN

MaxOpenGuard(n) == n < MAX_OPEN

\* A mutant of DipOkMono: a price at the threshold is no dip.
DipOkMonoStrict(price, last) == price * 100 < last * DipPctMono

DipOkMono(price, last) == price * 100 <= last * DipPctMono

TrendOkMono(price, ema) == price > ema

StopMono(price, a) == price * Milli - (a * Milli * SlAtrTenths) \div 10
TargetMono(price, a) == price * Milli + (a * Milli * TpAtrTenths) \div 10

\* raw_qty, max_q, min, round down to the lot size.
EntryQtyMono(price, a, eq, csh) ==
    FloorLots(FracMin(PosSize(price * Milli, StopMono(price, a), eq, RiskPctMono),
                      Frac(csh, price)))

SkipBuyMono(qty, cost, csh) == qty < MinLot \/ cost > csh

\* A mutant of TrailStopMono: the stop follows the price down.
TrailStopMonoNoMax(pos, price) ==
    IF price * Milli > pos.entry
    THEN [pos EXCEPT !.sl = (price * Milli * (100 - TRAIL_PCT)) \div 100]
    ELSE pos

\* The trailing stop.
TrailStopMono(pos, price) ==
    IF price * Milli > pos.entry
    THEN [pos EXCEPT !.sl = Max(pos.sl, (price * Milli * (100 - TRAIL_PCT)) \div 100)]
    ELSE pos

ExitSignalMono(pos, price) == price * Milli >= pos.tp \/ price * Milli <= pos.sl

\* A mutant of ExitTagMono: the stop is looked at first.
ExitTagMonoStopFirst(pos, price) == IF price * Milli <= pos.sl THEN "SL" ELSE "TP"

ExitTagMono(pos, price) == IF price * Milli >= pos.tp THEN "TP" ELSE "SL"

SellFailed == [ok |-> FALSE, sold |-> 0]

\* safe_market_sell(sym, qty): what it answers and the quantity it submitted.
SafeMarketSell(qty, active, price, free_amt, order_ok) ==
    IF ~active THEN SellFailed
    ELSE IF price = 0 THEN SellFailed
    ELSE LET q == Min(qty, free_amt) IN
         IF q < MinLot THEN SellFailed
         ELSE IF order_ok THEN [ok |-> TRUE, sold |-> q] ELSE SellFailed

\* The position after the sell attempt.
AfterSellMono(pos, ok) == IF ok THEN NoPos ELSE pos

\* The position, count and cash after the buy attempt.
AfterBuyMono(pos, n, csh, price, qty, a, ok) ==
    IF ok
    THEN [pos |-> [entry |-> price * Milli, amount |-> qty,
                   sl |-> StopMono(price, a), tp |-> TargetMono(price, a)],
          open_n |-> n + 1, cash |-> csh - qty * price]
    ELSE [pos |-> pos, open_n |-> n, cash |-> csh]

InitMono ==
    /\ impl = "mono"
    /\ nsyms \in 1..NumSyms
    /\ pc = "start"
    /\ idx = 1
    /\ cycle = 0
    /\ \E held \in [Syms -> HeldVals], hist \in [Syms -> AdoptHistories],
          a \in [Syms -> AtrVals], p \in [Syms -> InitPrices] :
          positions = [s \in Syms |-> AdoptMono(held[s], p[s], hist[s], a[s])]
    /\ peak_cache = [s \in Syms |-> NoPeak]
    /\ last_price \in [Syms -> InitPrices]
    /\ cash = 0
    /\ equity = 0
    /\ open_n = 0
    /\ tradeable = {}
    /\ depth_ema = [s \in Syms |-> DepthUnset]
    /\ fetched = NoFetch
    /\ event = NoEvent
    /\ sigint = FALSE

\* The head of the while loop: cash, balances, equity, the open count.
MonoCycleStart ==
    /\ impl = "mono" /\ pc = "start"
    /\ (cycle + 1) * nsyms <= MaxScans
    /\ cycle' = cycle + 1
    /\ \E c \in CashVals, w \in WalletVals :
          /\ cash' = c
          /\ equity' = c + w
    /\ open_n' = OpenCount(positions)
    /\ tradeable' = {}
    /\ fetched' = NoFetch
    /\ pc' = "scan"
    /\ idx' = 1
    /\ UNCHANGED <<impl, nsyms, sigint, positions, peak_cache, last_price, depth_ema,
                   event, fifoVars, recVars, calcVars, pageVars>>

\* The volume filter and the tradeable scan of one symbol.
MonoScan ==
    /\ impl = "mono" /\ pc = "scan"
    /\ idx <= nsyms
    /\ \E vol_ok \in BOOLEAN :
          IF ~vol_ok
          THEN UNCHANGED <<tradeable, depth_ema, fetched>>
          ELSE \E price \in Prices, active \in BOOLEAN, total \in DepthTotals :
                  LET d == DepthUpdate(depth_ema[idx], total) IN
                  /\ fetched' = [sym |-> idx, price |-> price, total |-> total]
                  /\ depth_ema' = [depth_ema EXCEPT ![idx] = d]
                  /\ tradeable' =
                        IF ScanReasonsMono(active, price, cash, last_price[idx], d) = {}
                        THEN tradeable \cup {idx} ELSE tradeable
    /\ idx' = IF idx = nsyms THEN 1 ELSE idx + 1
    /\ pc' = IF idx = nsyms THEN "maint" ELSE "scan"
    /\ UNCHANGED <<impl, nsyms, sigint, cycle, positions, peak_cache, last_price, cash,
                   equity, open_n, event, fifoVars, recVars, calcVars, pageVars>>

\* What one pass of the maintenance loop leaves behind.
MaintDone(sym, price, pos, n, csh, ev) ==
    /\ positions' = [positions EXCEPT ![sym] = pos]
    /\ open_n' = n
    /\ cash' = csh
    /\ last_price' = [last_price EXCEPT ![sym] = price]
    /\ fetched' = [sym |-> sym, price |-> price, total |-> 0]
    /\ event' = ev
    /\ idx' = sym + 1
    /\ UNCHANGED <<impl, nsyms, sigint, pc, cycle, peak_cache, equity, tradeable,
                   depth_ema, fifoVars, recVars, calcVars, pageVars>>

\* One pass of `for sym in tradeable`: the wallet check, then the entry or
\* the exit branch, then last_price.
MonoMaintain ==
    /\ impl = "mono" /\ pc = "maint"
    /\ NextTradeable(idx) # 0
    /\ LET sym == NextTradeable(idx) IN
       \E price \in Prices, held \in HeldVals :
          LET dropped == WalletDrop(positions[sym], held)
              pos     == IF dropped THEN NoPos ELSE positions[sym]
              E(branch, actions, exec, ema, sl) ==
                  Ev(sym, price, open_n, cash, dropped, branch, actions, exec,
                     ema, sl, IF pos = NoPos THEN 0 ELSE pos.tp, <<>>)
          IN
          IF pos = NoPos /\ MaxOpenGuard(open_n) /\ DipOkMono(price, last_price[sym])
          THEN \E ema \in EmaVals :
                  IF TrendOkMono(price, ema)
                  THEN \E a \in AtrVals :
                          LET qty  == EntryQtyMono(price, a, equity, cash)
                              cost == qty * price
                          IN
                          IF SkipBuyMono(qty, cost, cash)
                          THEN MaintDone(sym, price, pos, open_n, cash,
                                  [E("entry", <<>>, "none", ema, 0)
                                      EXCEPT !.vol = a])
                          ELSE \E order_ok \in BOOLEAN :
                                  LET r == AfterBuyMono(pos, open_n, cash, price,
                                                        qty, a, order_ok)
                                  IN  MaintDone(sym, price, r.pos, r.open_n, r.cash,
                                          [E("entry", <<Action("buy", qty, "entry")>>,
                                             IF order_ok THEN "ok" ELSE "failed",
                                             ema, 0)
                                              EXCEPT !.vol = a])
                  ELSE MaintDone(sym, price, pos, open_n, cash,
                                 E("none", <<>>, "none", ema, 0))
          ELSE IF pos # NoPos
          THEN LET pos1 == TrailStopMono(pos, price) IN
               IF ExitSignalMono(pos1, price)
               THEN \E active \in BOOLEAN :
                    \* what an inactive market leaves unread is given as zero
                    \E sell_price \in IF active THEN Prices ELSE {0} :
                    \E free_amt \in IF active /\ sell_price # 0 THEN FreeVals ELSE {0},
                       order_ok \in IF active /\ sell_price # 0 THEN BOOLEAN ELSE {FALSE} :
                       LET r == SafeMarketSell(pos1.amount, active, sell_price,
                                               free_amt, order_ok)
                       IN  MaintDone(sym, price, AfterSellMono(pos1, r.ok),
                               IF r.ok THEN open_n - 1 ELSE open_n, cash,
                               E("exit",
                                 <<Action("sell", r.sold, ExitTagMono(pos1, price))>>,
                                 IF r.ok THEN "ok" ELSE "failed", 0, pos1.sl))
               ELSE MaintDone(sym, price, pos1, open_n, cash,
                              E("exit", <<>>, "none", 0, pos1.sl))
          ELSE MaintDone(sym, price, pos, open_n, cash,
                         E("none", <<>>, "none", 0, 0))

\* The list is exhausted: time.sleep(POLL_INTERVAL), then the next cycle.
\* cash, equity, open_n and tradeable are assigned anew at the head of the
\* next cycle before they are read: the model clears them here.
MonoSleep ==
    /\ impl = "mono" /\ pc = "maint"
    /\ NextTradeable(idx) = 0
    /\ pc' = "start"
    /\ idx' = 1
    /\ cash' = 0 /\ equity' = 0 /\ open_n' = 0 /\ tradeable' = {}
    /\ UNCHANGED <<impl, nsyms, sigint, cycle, positions, peak_cache, last_price,
                   depth_ema, event, fetched, fifoVars, recVars, calcVars, pageVars>>

\* A gateway call of the cycle raises an Exception and the try block of the
\* loop is left for `except Exception`: between two passes (the ticker of the
\* volume filter, the order book of the depth average, the trade log), or
\* within a pass of the maintenance loop, after the wallet check has dropped
\* the position (ema, atr) or after the stop was lifted in place (the balance
\* read of the sell).
MonoFail ==
    /\ impl = "mono"
    /\ pc = "scan" \/ (pc = "maint" /\ (idx = 1 \/ NextTradeable(idx) # 0))
    /\ \/ UNCHANGED <<positions, fetched>>
       \/ /\ pc = "maint" /\ NextTradeable(idx) # 0
          /\ LET sym == NextTradeable(idx) IN
             \E price \in Prices, held \in HeldVals :
                LET pos == positions[sym] IN
                /\ pos # NoPos
                /\ fetched' = [sym |-> sym, price |-> price, total |-> 0]
                /\ IF WalletDrop(pos, held)
                   THEN /\ MaxOpenGuard(open_n)
                        /\ DipOkMono(price, last_price[sym])
                        /\ positions' = [positions EXCEPT ![sym] = NoPos]
                   ELSE /\ ExitSignalMono(TrailStopMono(pos, price), price)
                        /\ positions' =
                              [positions EXCEPT ![sym] = TrailStopMono(pos, price)]
    /\ pc' = "failed"
    /\ event' = [kind |-> "error", cycle |-> cycle]
    /\ UNCHANGED <<impl, nsyms, sigint, idx, cycle, peak_cache, last_price, cash,
                   equity, open_n, tradeable, depth_ema, fifoVars, recVars, calcVars,
                   pageVars>>

\* A mutant of ErrorPc: the handler of a cycle's failure leaves the loop.
ErrorPcBreak == "stopped"

\* Where `except Exception` leads: logger.exception, time.sleep(POLL_INTERVAL)
\* and, with `while True`, the head of the next cycle.
ErrorPc == "start"

\* The handler of a cycle's failure.  It assigns nothing; cash, equity,
\* open_n and tradeable are assigned anew at the head of the next cycle.
MonoRetry ==
    /\ impl = "mono" /\ pc = "failed"
    /\ pc' = ErrorPc
    /\ idx' = 1
    /\ cash' = 0 /\ equity' = 0 /\ open_n' = 0 /\ tradeable' = {}
    /\ UNCHANGED <<impl, nsyms, sigint, cycle, positions, peak_cache, last_price,
                   depth_ema, event, fetched, fifoVars, recVars, calcVars, pageVars>>

\* A KeyboardInterrupt is raised between two steps of the loop or in one of
\* its sleeps: the loop ends with the positions as they are (in the try block
\* the handler logs them and breaks; in the sleep of `except Exception` the
\* interrupt ends the process).
MonoInterrupt ==
    /\ impl = "mono" /\ pc \in {"start", "scan", "maint", "failed"}
    /\ pc' = "stopped"
    /\ sigint' = TRUE
    /\ UNCHANGED <<impl, nsyms, idx, cycle, positions, peak_cache, last_price,
                   cash, equity, open_n, tradeable, depth_ema, event, fetched,
                   fifoVars, recVars, calcVars, pageVars>>

\* What a pass of the maintenance loop leaves behind when the interrupt is
\* raised in it: the position as the pass has it at that moment, the price
\* it fetched, and none of the assignments that were still to come.
MaintCut(sym, price, pos, ev) ==
    /\ positions' = [positions EXCEPT ![sym] = pos]
    /\ fetched' = [sym |-> sym, price |-> price, total |-> 0]
    /\ event' = ev
    /\ pc' = "stopped"
    /\ sigint' = TRUE
    /\ UNCHANGED <<impl, nsyms, idx, cycle, peak_cache, last_price, cash, equity,
                   open_n, tradeable, depth_ema, fifoVars, recVars, calcVars, pageVars>>

\* A KeyboardInterrupt is raised in a pass of the maintenance loop when the
\* exchange has accepted the order of the pass and before the assignments
\* that follow it: after create_limit_buy_order has returned and before
\* positions[sym] is set, or after create_limit_sell_order has returned and
\* before positions[sym] is cleared.  No statement of the loop holds the
\* signal back.
MonoInterruptOrder ==
    /\ impl = "mono" /\ pc = "maint"
    /\ NextTradeable(idx) # 0
    /\ LET sym == NextTradeable(idx) IN
       \E price \in Prices, held \in HeldVals :
          LET dropped == WalletDrop(positions[sym], held)
              pos     == IF dropped THEN NoPos ELSE positions[sym]
          IN
          IF pos = NoPos
          THEN /\ MaxOpenGuard(open_n) /\ DipOkMono(price, last_price[sym])
               /\ \E ema \in EmaVals, a \in AtrVals :
                     LET qty == EntryQtyMono(price, a, equity, cash) IN
                     /\ TrendOkMono(price, ema)
                     /\ ~SkipBuyMono(qty, qty * price, cash)
                     /\ MaintCut(sym, price, pos,
                           [Ev(sym, price, open_n, cash, dropped, "entry",
                               <<Action("buy", qty, "entry")>>, "ok", ema, 0, 0,
                               <<>>)
                               EXCEPT !.vol = a])
          ELSE LET pos1 == TrailStopMono(pos, price) IN
               /\ ExitSignalMono(pos1, price)
               /\ \E sell_price \in Prices, free_amt \in FreeVals :
                     LET r == SafeMarketSell(pos1.amount, TRUE, sell_price,
                                             free_amt, TRUE)
                     IN  /\ r.ok
                         /\ MaintCut(sym, price, pos1,
                               Ev(sym, price, open_n, cash, dropped, "exit",
                                  <<Action("sell", r.sold, ExitTagMono(pos1, price))>>,
                                  "ok", 0, pos1.sl, pos1.tp, <<>>))

(***************************************************************************)
(*        strategy.py, ledger.py, execution.py: the modular functions      *)
(*                                                                         *)
(* Their caller is not part of the sources: the functions are applied to   *)
(* any arguments, any number of times, on the positions                    *)
(* initialize_positions builds and on those the caller opens and closes    *)
(* (ModOpen, ModClose: its bookkeeping as the specification describes it). *)
(* filter_tradeable writes the depth                                       *)
(* averages and nothing generate_actions reads, generate_actions writes    *)
(* pos["sl"] and peak_cache and nothing filter_tradeable reads: a run      *)
(* exercises one of the two (pc).  Indicator values are gateway answers.   *)
(***************************************************************************)
DipPctMod  == 98
RiskPctMod == 5

\* fetch_price answers None for an unsupported or failing symbol.
NoPrice == -1
PricesOrNone == Prices \cup {98, NoPrice}

\* initialize_positions, one symbol.  Quantities are whole lots, so the 1e-8
\* tolerance admits no difference but zero; prices go in as thousandths.
InitializePosition(wallet_qty, spot, hist, a) ==
    LET spot0 == IF spot = NoPrice THEN 0 ELSE spot IN
    IF spot0 = 0 \/ wallet_qty * spot0 < MIN_USD_EXPOS
    THEN NoPos
    ELSE LET h   == OpenPositionFromHistory(hist)
             he  == (h.avg.num * Milli) \div h.avg.den
             r   == ReconcileWallet(wallet_qty, h.qty, he, spot0 * Milli, 0)
             avg == r.avg.num \div r.avg.den
             vol == IF a # 0 THEN a * Milli ELSE avg \div 100
         IN  [entry |-> 0, avg_price |-> avg, amount |-> r.qty,
              sl |-> avg - (vol * SlAtrTenths) \div 10,
              tp |-> avg + (vol * TpAtrTenths) \div 10]

\* The reasons filter_tradeable collects for one symbol.
FilterReasons(price, trend_val, csh, last, depth) ==
    (IF price < trend_val THEN <<"below-4h-EMA">> ELSE <<>>)
    \o (IF csh < MinLot * price THEN <<"cash<min">> ELSE <<>>)
    \o (IF price * 100 > last * DipPctMod THEN <<"no-dip">> ELSE <<>>)
    \o (IF depth < MIN_BOOK_UNITS * DepthScale THEN <<"thin-book">> ELSE <<>>)

GenResult(branch, actions, reasons, pos, peak) ==
    [kind |-> "ok", branch |-> branch, actions |-> actions,
     reasons |-> reasons, pos |-> pos, peak |-> peak, vol |-> NoVol]

\* A mutant of MaxOpenReached: the guard admits one position too many.
MaxOpenReachedOffByOne(n) == n > MAX_OPEN

MaxOpenReached(n) == n >= MAX_OPEN

\* A mutant of GenEntry: a quantity under the lot size is given no reason.
GenEntryNoSizeReason(price, last, n, csh, eq, ema_val, vol, peak) ==
    IF MaxOpenReached(n)
    THEN GenResult("entry", <<>>, <<"max-open-reached">>, NoPos, peak)
    ELSE LET dip_ok == price * 100 <= last * DipPctMod
             r1 == IF ~dip_ok THEN <<"no-dip">> ELSE <<>>
             r2 == IF ema_val <= 0 THEN <<"no-ema">>
                   ELSE IF price >= ema_val THEN <<"above-ema">> ELSE <<>>
         IN
         IF dip_ok /\ ema_val > 0 /\ price < ema_val
         THEN IF price = 0
              THEN [kind |-> "raise"]
              ELSE LET sl  == price * Milli - (vol * Milli * SlAtrTenths) \div 10
                       tp  == price * Milli + (vol * Milli * TpAtrTenths) \div 10
                       qty == FloorLots(FracMin(
                                  PosSize(price * Milli, sl, eq, RiskPctMod),
                                  Frac(csh, price)))
                   IN  IF qty >= MinLot
                       THEN [GenResult("entry", <<EntryAction(qty, sl, tp)>>,
                                       <<>>, NoPos, peak) EXCEPT !.vol = vol]
                       ELSE [GenResult("entry", <<>>, <<>>, NoPos, peak)
                                EXCEPT !.vol = vol]
         ELSE GenResult("entry", <<>>, r1 \o r2, NoPos, peak)

\* The entry branch of generate_actions.
GenEntry(price, last, n, csh, eq, ema_val, vol, peak) ==
    IF MaxOpenReached(n)
    THEN GenResult("entry", <<>>, <<"max-open-reached">>, NoPos, peak)
    ELSE LET dip_ok == price * 100 <= last * DipPctMod
             r1 == IF ~dip_ok THEN <<"no-dip">> ELSE <<>>
             r2 == IF ema_val <= 0 THEN <<"no-ema">>
                   ELSE IF price >= ema_val THEN <<"above-ema">> ELSE <<>>
         IN
         IF dip_ok /\ ema_val > 0 /\ price < ema_val
         THEN IF price = 0
              THEN [kind |-> "raise"]
              ELSE LET sl  == price * Milli - (vol * Milli * SlAtrTenths) \div 10
                       tp  == price * Milli + (vol * Milli * TpAtrTenths) \div 10
                       qty == FloorLots(FracMin(
                                  PosSize(price * Milli, sl, eq, RiskPctMod),
                                  Frac(csh, price)))
                   IN  IF qty >= MinLot
                       THEN [GenResult("entry", <<EntryAction(qty, sl, tp)>>,
                                       <<>>, NoPos, peak) EXCEPT !.vol = vol]
                       ELSE [GenResult("entry", <<>>, <<"qty<minlot">>, NoPos,
                                       peak) EXCEPT !.vol = vol]
         ELSE GenResult("entry", <<>>, r1 \o r2, NoPos, peak)

\* A mutant of LiftStop: the stop is set to the trail level whatever it was.
LiftStopAlways(pos, new_sl) == [pos EXCEPT !.sl = new_sl]

LiftStop(pos, new_sl) == IF new_sl > pos.sl THEN [pos EXCEPT !.sl = new_sl] ELSE pos

\* A mutant of ExitTag: the stop is looked at first.
ExitTagStopFirst(pos, price) ==
    IF price * Milli <= pos.sl THEN "SL"
    ELSE IF price * Milli >= pos.tp THEN "TP"
    ELSE "none"

ExitTag(pos, price) ==
    IF price * Milli >= pos.tp THEN "TP"
    ELSE IF price * Milli <= pos.sl THEN "SL"
    ELSE "none"

\* A mutant of GenExit: the peak follows the price down.
GenExitPeakIsPrice(pos, price, peak) ==
    LET pk   == price * Milli
        pos1 == LiftStop(pos, (pk * (100 - TRAIL_PCT)) \div 100)
        tag  == ExitTag(pos1, price)
    IN  IF tag # "none"
        THEN GenResult("exit", <<Action("sell", pos.amount, tag)>>, <<>>, pos1, pk)
        ELSE GenResult("exit", <<>>, <<"no-exit-signal">>, pos1, pk)

\* A mutant of GenExit: a proposed sell removes the position at once.
GenExitClearsOnSell(pos, price, peak) ==
    LET entry_price == IF pos.entry # 0 THEN pos.entry
                       ELSE IF pos.avg_price # 0 THEN pos.avg_price
                       ELSE price * Milli
        prev_peak   == IF peak = NoPeak THEN entry_price ELSE peak
        pk          == Max(prev_peak, price * Milli)
        pos1        == LiftStop(pos, (pk * (100 - TRAIL_PCT)) \div 100)
        tag         == ExitTag(pos1, price)
    IN  IF tag # "none"
        THEN GenResult("exit", <<Action("sell", pos.amount, tag)>>, <<>>, NoPos, pk)
        ELSE GenResult("exit", <<>>, <<"no-exit-signal">>, pos1, pk)

\* A mutant of GenExit: the stop trails the peak of the evaluation before.
GenExitStalePeak(pos, price, peak) ==
    LET entry_price == IF pos.entry # 0 THEN pos.entry
                       ELSE IF pos.avg_price # 0 THEN pos.avg_price
                       ELSE price * Milli
        prev_peak   == IF peak = NoPeak THEN entry_price ELSE peak
        pk          == Max(prev_peak, price * Milli)
        pos1        == LiftStop(pos, (prev_peak * (100 - TRAIL_PCT)) \div 100)
        tag         == ExitTag(pos1, price)
    IN  IF tag # "none"
        THEN GenResult("exit", <<Action("sell", pos.amount, tag)>>, <<>>, pos1, pk)
        ELSE GenResult("exit", <<>>, <<"no-exit-signal">>, pos1, pk)

\* The exit branch of generate_actions.
GenExit(pos, price, peak) ==
    LET entry_price == IF pos.entry # 0 THEN pos.entry
                       ELSE IF pos.avg_price # 0 THEN pos.avg_price
                       ELSE price * Milli
        prev_peak   == IF peak = NoPeak THEN entry_price ELSE peak
        pk          == Max(prev_peak, price * Milli)
        pos1        == LiftStop(pos, (pk * (100 - TRAIL_PCT)) \div 100)
        tag         == ExitTag(pos1, price)
    IN  IF tag # "none"
        THEN GenResult("exit", <<Action("sell", pos.amount, tag)>>, <<>>, pos1, pk)
        ELSE GenResult("exit", <<>>, <<"no-exit-signal">>, pos1, pk)

\* A mutant of GenerateActions: the evaluation of a flat instrument records
\* the price as its peak.
GenerateActionsPeakWhenFlat(pos, price, last, n, csh, eq, ema_val, vol, peak) ==
    IF price = NoPrice
    THEN GenResult("none", <<>>, <<"no-price">>, pos, peak)
    ELSE IF pos = NoPos
    THEN LET r == GenEntry(price, last, n, csh, eq, ema_val, vol, peak) IN
         IF r.kind = "raise" THEN r ELSE [r EXCEPT !.peak = price * Milli]
    ELSE GenExit(pos, price, peak)

GenerateActions(pos, price, last, n, csh, eq, ema_val, vol, peak) ==
    IF price = NoPrice
    THEN GenResult("none", <<>>, <<"no-price">>, pos, peak)
    ELSE IF pos = NoPos
    THEN GenEntry(price, last, n, csh, eq, ema_val, vol, peak)
    ELSE GenExit(pos, price, peak)

\* safe_limit_sell(symbol, qty): True, False, or the TypeError of comparing a
\* missing price with 0.
SafeLimitSell(qty, active, price, free_amt, order_ok) ==
    IF ~active THEN "failed"
    ELSE IF price = NoPrice THEN "raise"
    ELSE IF price <= 0 THEN "failed"
    ELSE IF Min(qty, free_amt) < MinLot THEN "failed"
    ELSE IF order_ok THEN "ok" ELSE "failed"

\* The quantity of the order safe_limit_sell creates: qty = min(qty, free).
SubmittedQty(qty, free_amt) == Min(qty, free_amt)

WalletQtys   == {0, 10, 20}
SpotVals     == {NoPrice, 0, 100}
OpenCounts   == 0..(MAX_OPEN + 1)

InitMod ==
    /\ impl = "mod"
    /\ nsyms = 1
    /\ pc \in {"filter", "generate"}
    /\ idx = 1
    /\ cycle = 0
    /\ \E w \in [Syms -> WalletQtys], spot \in [Syms -> SpotVals],
          hist \in [Syms -> AdoptHistories], a \in [Syms -> AtrVals] :
          positions = [s \in Syms |-> InitializePosition(w[s], spot[s], hist[s], a[s])]
    /\ peak_cache = [s \in Syms |-> NoPeak]
    /\ last_price \in [Syms -> InitPrices]
    /\ cash = 0
    /\ equity = 0
    /\ open_n = 0
    /\ tradeable = {}
    /\ depth_ema = [s \in Syms |-> DepthUnset]
    /\ fetched = NoFetch
    /\ event = NoEvent
    /\ sigint = FALSE

\* generate_actions and its caller on two symbols, to show what a call for
\* one symbol does to the other.
InitPair ==
    /\ impl = "mod"
    /\ nsyms = 2
    /\ pc = "generate"
    /\ idx = 1
    /\ cycle = 0
    /\ \E w \in [Syms -> WalletQtys], spot \in [Syms -> SpotVals],
          hist \in [Syms -> AdoptHistories], a \in [Syms -> AtrVals] :
          positions = [s \in Syms |-> InitializePosition(w[s], spot[s], hist[s], a[s])]
    /\ peak_cache = [s \in Syms |-> NoPeak]
    /\ last_price \in [Syms -> InitPrices]
    /\ cash = 0
    /\ equity = 0
    /\ open_n = 0
    /\ tradeable = {}
    /\ depth_ema = [s \in Syms |-> DepthUnset]
    /\ fetched = NoFetch
    /\ event = NoEvent
    /\ sigint = FALSE
    /\ FifoIdle /\ RecIdle /\ CalcIdle /\ PageIdle

\* One call of filter_tradeable(symbols, positions, last_price, cash).
ModFilter ==
    /\ impl = "mod" /\ pc = "filter"
    /\ (cycle + 1) * nsyms <= MaxScans
    /\ cycle' = cycle + 1
    /\ \E csh \in CashVals, price \in [Syms -> PricesOrNone],
          trend \in [Syms -> EmaVals], total \in [Syms -> DepthTotals] :
          LET d == [s \in Syms |->
                      IF price[s] = NoPrice THEN depth_ema[s]
                      ELSE DepthUpdate(depth_ema[s], total[s])]
              reasons == [s \in Syms |->
                      IF price[s] = NoPrice THEN <<"no ticker">>
                      ELSE FilterReasons(price[s], trend[s], csh, last_price[s], d[s])]
          IN  /\ depth_ema' = d
              /\ tradeable' = {s \in Syms : reasons[s] = <<>>}
              /\ event' = [kind |-> "filter", cycle |-> cycle + 1, cash |-> csh,
                           price |-> price, trend |-> trend, reasons |-> reasons,
                           total |-> [s \in Syms |->
                                        IF price[s] = NoPrice THEN 0 ELSE total[s]]]
    /\ UNCHANGED <<impl, nsyms, sigint, pc, idx, positions, peak_cache, last_price, cash,
                   equity, open_n, fetched, fifoVars, recVars, calcVars, pageVars>>

\* One call of generate_actions(sym, positions, last_price, open_n, cash,
\* equity, peak_cache); it lifts pos["sl"] and writes peak_cache in place.
ModGenerate ==
    /\ impl = "mod" /\ pc = "generate"
    /\ \E sym \in Syms, price \in PricesOrNone :
       \* the exit branch reads none of these: it is given zeros; with two
       \* symbols the caller's account is the largest of the model, and its
       \* open count is none or MAX_OPEN
       LET entry == positions[sym] = NoPos /\ price # NoPrice
           Arg(S) == IF entry THEN S ELSE {0}
           One(S) == IF nsyms = 1 THEN S ELSE {CHOOSE x \in S : \A y \in S : x >= y}
       IN
       \E n \in Arg(IF nsyms = 1 THEN OpenCounts ELSE {0, MAX_OPEN}),
          csh \in Arg(One(CashVals)), w \in Arg(One(WalletVals)),
          ema_val \in Arg(EmaVals), vol \in Arg(AtrVals) :
          LET r == GenerateActions(positions[sym], price, last_price[sym], n, csh,
                                   csh + w, ema_val, vol, peak_cache[sym])
          IN  IF r.kind = "raise"
              THEN /\ event' = [kind |-> "raise", cycle |-> cycle, sym |-> sym,
                                price |-> price]
                   /\ UNCHANGED <<positions, peak_cache>>
              ELSE /\ positions' = [positions EXCEPT ![sym] = r.pos]
                   /\ peak_cache' = [peak_cache EXCEPT ![sym] = r.peak]
                   /\ event' = [Ev(sym, price, n, csh, FALSE, r.branch, r.actions,
                                   "none", ema_val,
                                   IF r.pos = NoPos THEN 0 ELSE r.pos.sl,
                                   IF r.pos = NoPos THEN 0 ELSE r.pos.tp, r.reasons)
                                   EXCEPT !.vol = r.vol]
    /\ UNCHANGED <<impl, nsyms, sigint, pc, idx, cycle, last_price, cash, equity, open_n,
                   tradeable, depth_ema, fetched, fifoVars, recVars, calcVars, pageVars>>

\* The caller of generate_actions submits the proposed buy; once the
\* exchange has confirmed it the position is stored and its peak seeded at
\* the entry price.
ModOpen ==
    /\ impl = "mod" /\ pc = "generate"
    /\ event.kind = "eval" /\ event.exec = "none"
    /\ event.actions # <<>> /\ event.actions[1].side = "buy"
    /\ positions[event.sym] = NoPos
    /\ \E order_ok \in BOOLEAN :
          LET a     == event.actions[1]
              entry == event.price * Milli
          IN  /\ event' = [event EXCEPT !.exec = IF order_ok THEN "ok" ELSE "failed"]
              /\ positions' =
                    IF order_ok
                    THEN [positions EXCEPT ![event.sym] =
                             [entry |-> entry, avg_price |-> entry,
                              amount |-> a.qty, sl |-> a.sl, tp |-> a.tp]]
                    ELSE positions
              /\ peak_cache' =
                    IF order_ok THEN [peak_cache EXCEPT ![event.sym] = entry]
                    ELSE peak_cache
    /\ UNCHANGED <<impl, nsyms, sigint, pc, idx, cycle, last_price, cash, equity, open_n,
                   tradeable, depth_ema, fetched, fifoVars, recVars, calcVars, pageVars>>

\* The caller closes the position whose sell the exchange has confirmed: the
\* position becomes null and its peak-cache entry is deleted.
ModClose ==
    /\ impl = "mod" /\ pc = "generate"
    /\ event.kind = "eval" /\ event.exec = "ok"
    /\ event.actions # <<>> /\ event.actions[1].side = "sell"
    /\ positions[event.sym] # NoPos
    /\ positions' = [positions EXCEPT ![event.sym] = NoPos]
    /\ peak_cache' = [peak_cache EXCEPT ![event.sym] = NoPeak]
    /\ UNCHANGED <<impl, nsyms, sigint, pc, idx, cycle, last_price, cash, equity, open_n,
                   tradeable, depth_ema, fetched, event, fifoVars, recVars, calcVars,
                   pageVars>>

\* safe_limit_sell on the sell generate_actions proposed.
ModSafeLimitSell ==
    /\ impl = "mod" /\ pc = "generate"
    /\ event.kind = "eval" /\ event.exec = "none"
    /\ event.actions # <<>> /\ event.actions[1].side = "sell"
    /\ \E active \in BOOLEAN, price \in PricesOrNone, free_amt \in FreeVals,
          order_ok \in BOOLEAN :
          LET res == SafeLimitSell(event.actions[1].qty, active, price,
                                   free_amt, order_ok)
          IN  event' = [event EXCEPT
                           !.exec = res,
                           !.sold = IF res = "ok"
                                    THEN SubmittedQty(event.actions[1].qty, free_amt)
                                    ELSE 0]
    /\ UNCHANGED <<impl, nsyms, sigint, pc, idx, cycle, positions, peak_cache, last_price,
                   cash, equity, open_n, tradeable, depth_ema, fetched, fifoVars, recVars, calcVars,
                   pageVars>>

(***************************************************************************)
(*              The sizing helpers, called on their own                    *)
(***************************************************************************)
MaxRawNum   == 12
MaxStopDist == 5

RawQtys  == {Frac(n, d) : n \in 0..MaxRawNum, d \in 1..3}
LotSteps == 1..3

SizeEntry    == 100 * Milli
SizeStops    == {SizeEntry + k * Milli : k \in (-MaxStopDist)..MaxStopDist}
SizeEquities == {0, 1000, 10000}

\* The portfolio figures at the head of a cycle of the monolith, for the
\* wallet quantities held, the positions pos and the prices price of the
\* symbols 1..Len(held): equity = cash + sum(total x price) ...
RECURSIVE WalletValue(_, _)
WalletValue(held, price) ==
    IF held = <<>> THEN 0
    ELSE held[1] * price[1] + WalletValue(Tail(held), Tail(price))

EquityMono(csh, held, price) == csh + WalletValue(held, price)

\* ... and unreal = sum((total - positions[s]["amount"]) x price) over the
\* symbols that have a position.
RECURSIVE UnrealMono(_, _, _)
UnrealMono(held, pos, price) ==
    IF held = <<>> THEN 0
    ELSE (IF pos[1] # NoPos THEN (held[1] - pos[1].amount) * price[1] ELSE 0)
         + UnrealMono(Tail(held), Tail(pos), Tail(price))

MetricHeld   == {0, 10}
MetricPos    == {NoPos, [entry |-> 90 * Milli, amount |-> 10]}
MetricPrices == {90, 100}

MetricInputs ==
    UNION {[fn : {"metrics"}, cash : {0, 1000}, held : [1..n -> MetricHeld],
            pos : [1..n -> MetricPos], price : [1..n -> MetricPrices]]
           : n \in 1..2}

InitCalc ==
    /\ calc_in \in [fn : {"round_qty"}, qty : RawQtys, lot : LotSteps]
                  \cup [fn : {"pos_size"}, entry : {SizeEntry}, stop : SizeStops,
                        equity : SizeEquities, pct : {RiskPctMono, RiskPctMod}]
                  \cup MetricInputs
    /\ calc_out = NoResult
    /\ TradeIdle
    /\ FifoIdle
    /\ RecIdle
    /\ PageIdle

RoundQtyCall ==
    /\ calc_out = NoResult
    /\ calc_in.fn = "round_qty"
    /\ calc_out' = [kind |-> "ok", value |-> RoundQty(calc_in.qty, calc_in.lot)]
    /\ UNCHANGED <<calc_in, tradeVars, fifoVars, recVars, pageVars>>

PosSizeCall ==
    /\ calc_out = NoResult
    /\ calc_in.fn = "pos_size"
    /\ calc_out' = [kind |-> "ok",
                    value |-> PosSize(calc_in.entry, calc_in.stop, calc_in.equity,
                                      calc_in.pct)]
    /\ UNCHANGED <<calc_in, tradeVars, fifoVars, recVars, pageVars>>

MetricsCall ==
    /\ calc_out = NoResult
    /\ calc_in.fn = "metrics"
    /\ calc_out' = [kind |-> "ok",
                    equity |-> EquityMono(calc_in.cash, calc_in.held, calc_in.price),
                    unreal |-> UnrealMono(calc_in.held, calc_in.pos, calc_in.price)]
    /\ UNCHANGED <<calc_in, tradeVars, fifoVars, recVars, pageVars>>

(***************************************************************************)
(*                 fetch_all_trades: the paged trade history               *)
(*                                                                         *)
(* The page length (50 in the sources) and the page cap (max_pages = 20)   *)
(* are scaled down; a fill is its place in the exchange's list and its     *)
(* timestamp, and fills may share a timestamp.                             *)
(***************************************************************************)
PageLen   == 2
MaxPages  == 3
MaxLedger == 7

FillTimes == 1..3

\* exchange.fetch_my_trades(sym, params={"ofs": ofs}): the fills after the
\* first ofs, a page of them at most.
ExchangePage(all, ofs) == SubSeq(all, ofs + 1, Min(ofs + PageLen, Len(all)))

\* A mutant of NextOffset: the offset moves one fill less than the page held.
NextOffsetShort(prog, ofs, page) == ofs + Len(page) - 1

\* `ofs += len(page)` in exchange_client.py, `ofs += 50` in kraken-bot.py.
NextOffset(prog, ofs, page) ==
    IF prog = "client" THEN ofs + Len(page) ELSE ofs + PageLen

\* The place of t in a list already sorted: after every fill that is not
\* later than t (sorted() is stable).
RECURSIVE InsertByTime(_, _)
InsertByTime(t, ts) ==
    IF ts = <<>> THEN <<t>>
    ELSE IF t.timestamp < ts[1].timestamp THEN <<t>> \o ts
    ELSE <<ts[1]>> \o InsertByTime(t, Tail(ts))

\* sorted(trades, key=lambda t: t["timestamp"])
RECURSIVE SortedByTime(_)
SortedByTime(ts) ==
    IF ts = <<>> THEN <<>>
    ELSE InsertByTime(ts[Len(ts)], SortedByTime(SubSeq(ts, 1, Len(ts) - 1)))

InitPages ==
    /\ \E n \in 0..MaxLedger : \E f \in [1..n -> FillTimes] :
          ledger = [i \in 1..n |-> [id |-> i, timestamp |-> f[i]]]
    /\ \E prog \in {"client", "mono"} :
          pager = [prog |-> prog, n |-> 0, ofs |-> 0, last |-> 0,
                   done |-> FALSE, got |-> <<>>]
    /\ page_out = NoResult
    /\ TradeIdle
    /\ FifoIdle
    /\ RecIdle
    /\ CalcIdle

\* One pass of `for page_num in range(1, max_pages + 1)`: the request, the
\* break on an empty page, trades.extend, the offset, the break on a short
\* page.
PageRequest ==
    /\ page_out = NoResult
    /\ ~pager.done
    /\ pager.n < MaxPages
    /\ LET page == ExchangePage(ledger, pager.ofs) IN
       pager' = IF page = <<>>
                THEN [pager EXCEPT !.n = @ + 1, !.last = 0, !.done = TRUE]
                ELSE [pager EXCEPT !.n = @ + 1, !.last = Len(page),
                                   !.got = @ \o page,
                                   !.ofs = NextOffset(pager.prog, @, page),
                                   !.done = Len(page) < PageLen]
    /\ UNCHANGED <<ledger, page_out, tradeVars, fifoVars, recVars, calcVars>>

\* The loop is left, by a break or at the cap: the sorted list is returned.
PageReturn ==
    /\ page_out = NoResult
    /\ pager.done \/ pager.n = MaxPages
    /\ page_out' = [kind |-> "ok", trades |-> SortedByTime(pager.got)]
    /\ UNCHANGED <<ledger, pager, tradeVars, fifoVars, recVars, calcVars>>

(***************************************************************************)
(*                             Specifications                              *)
(***************************************************************************)

NextFifo == ReplayBuy \/ ReplaySell \/ ReplayReturn
SpecFifo == InitFifo /\ [][NextFifo]_vars

NextRec == Reconcile
SpecRec == InitRec /\ [][NextRec]_vars

NextCalc == RoundQtyCall \/ PosSizeCall \/ MetricsCall
SpecCalc == InitCalc /\ [][NextCalc]_vars

NextPages == PageRequest \/ PageReturn
SpecPages == InitPages /\ [][NextPages]_vars

NextPair == ModGenerate \/ ModSafeLimitSell \/ ModOpen \/ ModClose
SpecPair == InitPair /\ [][NextPair]_vars

Init == (InitMono \/ InitMod) /\ FifoIdle /\ RecIdle /\ CalcIdle /\ PageIdle
Next ==
    \/ MonoCycleStart \/ MonoScan \/ MonoMaintain \/ MonoSleep
    \/ MonoFail \/ MonoRetry \/ MonoInterrupt \/ MonoInterruptOrder
    \/ ModFilter \/ ModGenerate \/ ModSafeLimitSell \/ ModOpen \/ ModClose
Spec == Init /\ [][Next]_vars

(***************************************************************************)
(*                     Claims about the FIFO replay                        *)
(***************************************************************************)
RECURSIVE SideTotal(_, _)
SideTotal(ts, side) ==
    IF ts = <<>> THEN 0
    ELSE (IF ts[1].side = side THEN ts[1].amount ELSE 0) + SideTotal(Tail(ts), side)

BuyTotal(ts)  == SideTotal(ts, "buy")
SellTotal(ts) == SideTotal(ts, "sell")

\* No sell is larger than what the earlier fills left in the queue.
NoOversell(ts) ==
    \A n \in 1..Len(ts) : SellTotal(SubSeq(ts, 1, n)) <= BuyTotal(SubSeq(ts, 1, n))

Returned == hist_result.kind = "ok"

\* C7 as stated: for ANY interleaving of buy and sell fills whose total sell
\* quantity is at most the total buy quantity, the residual quantity the replay
\* returns is total buy quantity minus total sell quantity.
C7_ResidualAnyInterleaving ==
    (Returned /\ SellTotal(trades) <= BuyTotal(trades))
        => hist_result.qty = BuyTotal(trades) - SellTotal(trades)

\* C7 as amended: for any interleaving in which no sell exceeds the quantity the
\* earlier fills left (every prefix has total sell <= total buy), the residual
\* quantity the replay returns is total buy quantity minus total sell quantity.
C7_ResidualQty ==
    (Returned /\ NoOversell(trades))
        => hist_result.qty = BuyTotal(trades) - SellTotal(trades)

\* A replay of buy, buy, sell where the sell spans both lots has returned.
C7_Witness ==
    /\ Returned
    /\ NoOversell(trades)
    /\ Len(trades) = 3
    /\ trades[3].side = "sell"
    /\ trades[3].amount > trades[1].amount
    /\ hist_result.qty > 0

SpecExample ==
    << [side |-> "buy",  amount |-> 10, price |-> 100],
       [side |-> "buy",  amount |-> 5,  price |-> 110],
       [side |-> "sell", amount |-> 12, price |-> 120] >>

\* What a sell of q may do to the queue inv, giving inv2: it removes the k
\* oldest lots whole, takes the rest from the lot that is then oldest (which
\* keeps its price and a positive quantity), leaves every newer lot as it was,
\* and removes min(q, total) in all.
OldestFirst(inv, q, inv2) ==
    \E k \in 0..Len(inv) :
        /\ Len(inv2) = Len(inv) - k
        /\ \A i \in 2..Len(inv2) : inv2[i] = inv[k + i]
        /\ Len(inv2) >= 1 =>
              /\ inv2[1][2] = inv[k + 1][2]
              /\ inv2[1][1] > 0
              /\ inv2[1][1] <= inv[k + 1][1]
        /\ SumQty(inv) - SumQty(inv2) = Min(q, SumQty(inv))
        /\ SumQty(SubSeq(inv, 1, k)) <= q

\* C8: every sell consumes from the front (oldest) lot first, splitting it when
\* it is larger than what is left of the sell, and never touches a newer lot
\* while an older one remains; the average cost returned is
\* sum(qty x price) / sum(qty) over the lots left, and the history buy 10@100,
\* buy 5@110, sell 12@120 returns 3 units at an average of 110.
C8_OldestFirst ==
    /\ [][ReplaySell => OldestFirst(inventory, trades[t_next].amount, inventory')]_vars
    /\ [](Returned =>
            /\ hist_result.qty = SumQty(inventory)
            /\ hist_result.qty # 0 =>
                 hist_result.avg.num * SumQty(inventory)
                     = SumCost(inventory) * hist_result.avg.den
            /\ trades = SpecExample =>
                 /\ inventory = <<(<<3, 110>>)>>
                 /\ hist_result.qty = 3
                 /\ FracEq(hist_result.avg, Frac(110, 1)))

\* The replay of the spec's example has returned.
C8_Witness == Returned /\ trades = SpecExample

(***************************************************************************)
(*                     Claims about reconcile_wallet                       *)
(***************************************************************************)
Reconciled == rec_out # NoResult

WithinTol == Abs(rec_in.wallet_qty - rec_in.hist_qty) <= DecTol

\* C9: when |wallet_qty - hist_qty| <= tolerance, reconcile_wallet returns
\* quantity wallet_qty and exactly the historical average, whatever the spot
\* price (zero included).
C9_WithinTolerance ==
    (Reconciled /\ WithinTol)
        => /\ rec_out.kind = "ok"
           /\ rec_out.qty = rec_in.wallet_qty
           /\ rec_out.avg = Frac(rec_in.hist_entry, 1)

\* A call within tolerance but with different quantities and a zero spot price.
C9_Witness ==
    /\ Reconciled
    /\ WithinTol
    /\ rec_in.wallet_qty # rec_in.hist_qty
    /\ rec_in.spot = 0
    /\ rec_in.hist_entry > 0
    /\ rec_out.kind = "ok"

\* C10: when the quantities differ by more than the tolerance and spot is not
\* zero, reconcile_wallet returns quantity wallet_qty and average cost
\* (hist_qty x hist_avg + (wallet_qty - hist_qty) x spot) / wallet_qty, so that
\* quantity x average = historical cost + stray quantity x spot; when spot is
\* zero it returns (hist_qty, hist_avg).
C10_Blend ==
    (Reconciled /\ ~WithinTol)
        => IF rec_in.spot # 0
           THEN /\ rec_out.kind = "ok"
                /\ rec_out.qty = rec_in.wallet_qty
                /\ rec_out.avg.den # 0
                /\ rec_out.qty * rec_out.avg.num
                     = (rec_in.hist_qty * rec_in.hist_entry
                        + (rec_in.wallet_qty - rec_in.hist_qty) * rec_in.spot)
                       * rec_out.avg.den
           ELSE /\ rec_out.kind = "ok"
                /\ rec_out.qty = rec_in.hist_qty
                /\ rec_out.avg = Frac(rec_in.hist_entry, 1)

\* The history side of a call is one the replay can return: no quantity and
\* no average, or a quantity with a positive average.
HistorySound == (rec_in.hist_qty = 0) <=> (rec_in.hist_entry = 0)

\* C11: every position reconciliation produces with quantity > 0 has an
\* average cost > 0, for all wallet quantities, historical quantities and
\* averages and spot prices, a wallet smaller than the history included.
C11_PositiveCost ==
    (Reconciled /\ HistorySound /\ rec_out.kind = "ok" /\ rec_out.qty > 0)
        => rec_out.avg.num > 0 /\ rec_out.avg.den > 0

\* C27: reconcile_wallet returns a pair (quantity, average cost) and no
\* arithmetic fault for every input, a wallet quantity of 0 with a history
\* above the tolerance and a spot price other than zero included.
C27_NoDivisionFault == Reconciled => rec_out.kind = "ok"

(***************************************************************************)
(*                    Claims about the trading decisions                   *)
(***************************************************************************)
Evaluated == event.kind = "eval"
HasBuy    == Evaluated /\ event.actions # <<>> /\ event.actions[1].side = "buy"
HasSell   == Evaluated /\ event.actions # <<>> /\ event.actions[1].side = "sell"

\* The maintenance loop of the cycle has run through its list.
Exhausted == impl = "mono" /\ pc = "maint" /\ NextTradeable(idx) = 0

\* The step evaluates symbol s and the wallet check drops its position first.
DroppedNow(s) == event'.kind = "eval" /\ event'.sym = s /\ event'.dropped

\* The price the position was acquired at, as the exit branch reads it.
EntryOf(pos) == IF pos.entry # 0 THEN pos.entry ELSE pos.avg_price

\* C1: while a position stays open, no step lowers its stop: the stop after
\* a step is at or above the stop before it, whatever the price.
C1_StopRatchet ==
    [][\A s \in Syms :
          (positions[s] # NoPos /\ positions'[s] # NoPos /\ ~DroppedNow(s))
          => positions'[s].sl >= positions[s].sl]_vars

\* A position whose stop was lifted above its entry is evaluated again at a
\* price under that stop, and is still open with the stop where it was.
C1_Witness ==
    /\ Evaluated /\ event.branch = "exit"
    /\ positions[event.sym] # NoPos
    /\ event.price * Milli < positions[event.sym].sl
    /\ positions[event.sym].sl > EntryOf(positions[event.sym])
    /\ positions[event.sym].sl = event.sl

\* The step ends an order attempt that the exchange did not accept.
AttemptFailed ==
    /\ event' # event
    /\ event'.kind = "eval"
    /\ event'.exec \in {"failed", "raise"}

\* The position of s as the attempt found it: after the wallet check.
Before(s) == IF event'.dropped THEN NoPos ELSE positions[s]

\* The first half of C2: a refused order changes neither the position
\* (present or absent, quantity, target) nor the open count nor the cash.
C2_StateKept ==
    [][AttemptFailed =>
          LET s == event'.sym IN
          /\ (positions'[s] = NoPos) <=> (Before(s) = NoPos)
          /\ positions'[s] # NoPos =>
                /\ positions'[s].amount = Before(s).amount
                /\ positions'[s].tp = Before(s).tp
          /\ open_n' = open_n
          /\ cash' = cash
          /\ \A r \in Syms \ {s} : positions'[r] = positions[r]]_vars

\* The second half of C2: when a cycle's maintenance loop is through, the
\* latest refused order is one of this cycle, for the instrument it failed
\* on in the cycle before has been evaluated again.
C2_Retried ==
    [](Exhausted /\ Evaluated /\ event.exec = "failed" => event.cycle = cycle)

\* C2: a refused order (the buy raises, the safe sell answers False) leaves
\* position, open count and cash as they were, and the instrument is
\* evaluated again in the next cycle.
C2_NoPhantomRetry == C2_StateKept /\ C2_Retried

\* C3: a buy is proposed for a flat instrument only while the open count is
\* below MAX_OPEN, the reason is "max-open-reached" otherwise, the count
\* tracked through a cycle never falls below the number of positions held,
\* and after a filled entry at most MAX_OPEN positions are open.
C3_MaxOpenGuard ==
    /\ HasBuy => event.open_n < MAX_OPEN
    /\ (impl = "mod" /\ Evaluated /\ event.branch = "entry"
           /\ event.open_n >= MAX_OPEN)
          => event.actions = <<>> /\ event.reasons = <<"max-open-reached">>
    /\ (impl = "mono" /\ pc = "maint") => OpenCount(positions) <= open_n
    /\ (HasBuy /\ event.exec = "ok") => OpenCount(positions) <= MAX_OPEN

\* MAX_OPEN positions are open and a flat instrument of the same cycle, on a
\* dip, is refused its entry by the guard.
C3_Witness ==
    /\ impl = "mono" /\ pc = "maint"
    /\ Evaluated /\ event.cycle = cycle
    /\ event.branch = "none" /\ positions[event.sym] = NoPos
    /\ DipOkMono(event.price, event.last)
    /\ event.open_n = MAX_OPEN
    /\ OpenCount(positions) = MAX_OPEN

DepthFloor == MIN_BOOK_UNITS * DepthScale

C4_WitnessMod ==
    impl = "mod" /\ (HasBuy \/ (event.kind = "filter" /\ tradeable # {}
                                 /\ \E s \in tradeable : depth_ema[s] = DepthFloor))

\* C5: in every cycle the exit rules run for every instrument that has a
\* position: when the maintenance loop is through, every open position is
\* one it went over, whether or not the instrument passed the dip, cash,
\* liquidity and volume filters.
C5_EveryOpenEvaluated ==
    Exhausted => \A s \in Syms : positions[s] # NoPos => s \in tradeable

\* C6: on an open position the one action is a sell tagged "TP" when the
\* price is at the target or above, else a sell tagged "SL" when the price is
\* at or under the stop as this evaluation left it, else there is no action
\* (and generate_actions gives the reason "no-exit-signal"); never two
\* actions, and "TP" when both hold.
C6_ExitPriority ==
    (Evaluated /\ event.branch = "exit") =>
       LET p == event.price * Milli IN
       /\ Len(event.actions) <= 1
       /\ p >= event.tp =>
             HasSell /\ event.actions[1].tag = "TP"
       /\ (p < event.tp /\ p <= event.sl) =>
             HasSell /\ event.actions[1].tag = "SL"
       /\ (p < event.tp /\ p > event.sl) =>
             /\ event.actions = <<>>
             /\ impl = "mod" => event.reasons = <<"no-exit-signal">>

\* The price is at the target or above and at the stop or under: the tag is
\* "TP".
C6_Witness ==
    /\ Evaluated /\ event.branch = "exit"
    /\ event.price * Milli >= event.tp
    /\ event.price * Milli <= event.sl
    /\ HasSell /\ event.actions[1].tag = "TP"

\* Wallet quantities and prices around the dust floor of MIN_USD_EXPOS.
DustQtys   == 0..10
DustPrices == {0, 1, 2, 100}

\* C12: each instrument's position is null or a record with quantity > 0, in
\* every state after adoption and after any entries and exits; a wallet
\* worth less than the dust floor is adopted as null, whatever its history.
C12_NullOrPresent ==
    /\ \A s \in Syms : positions[s] = NoPos \/ positions[s].amount > 0
    /\ \A q \in DustQtys, p \in DustPrices, hist \in AdoptHistories, a \in AtrVals :
          q * p < MIN_USD_EXPOS =>
             /\ AdoptMono(q, p, hist, a) = NoPos
             /\ InitializePosition(q, p, hist, a) = NoPos

\* One position has been sold and cleared while another is held.
C12_Witness ==
    /\ impl = "mono" /\ HasSell /\ event.exec = "ok"
    /\ positions[event.sym] = NoPos
    /\ \E s \in Syms : positions[s] # NoPos /\ positions[s].amount > 0

\* C13: every entry emitted or submitted has quantity x price <= the cash
\* available when it was decided, and the cash tracked through a cycle,
\* reduced by the cost of each filled buy, is never negative.
C13_NeverOverspend ==
    /\ HasBuy => event.actions[1].qty * event.price <= event.cash
    /\ cash >= 0
    /\ (impl = "mono" /\ HasBuy /\ event.exec = "ok" /\ event.cycle = cycle
           /\ pc = "maint")
          => cash <= event.cash - event.actions[1].qty * event.price

\* A filled buy that the cash, not the risk, has sized: one more lot would
\* have cost more than there was.
C13_Witness ==
    /\ impl = "mono" /\ pc = "maint"
    /\ HasBuy /\ event.exec = "ok" /\ event.cycle = cycle
    /\ (event.actions[1].qty + MinLot) * event.price > event.cash
    /\ cash = event.cash - event.actions[1].qty * event.price

\* C16: for a flat instrument generate_actions returns its actions and
\* reasons for every price the price source can deliver, a price of exactly
\* zero and a volatility of zero included: no evaluation ends in an
\* arithmetic fault.
C16_NoArithmeticFault == event.kind # "raise"

InSeq(x, seq) == \E i \in 1..Len(seq) : seq[i] = x

\* Prices on, above and under the two thresholds of a last price of 100.
DipPrices == Prices \cup {94, 96, 97, 98, 99}

\* C17: the dip condition holds exactly when price <= last price x
\* threshold, equality counting as a dip; a price strictly above gives the
\* reason "no-dip" and no entry; the entry filter (the tradeable scan,
\* filter_tradeable) and the entry decision make the same inclusive
\* comparison.
C17_DipBoundary ==
    /\ HasBuy =>
          event.price * 100 <=
             event.last * (IF impl = "mono" THEN DipPctMono ELSE DipPctMod)
    /\ (impl = "mod" /\ Evaluated /\ event.branch = "entry"
           /\ event.open_n < MAX_OPEN)
          => (InSeq("no-dip", event.reasons)
                <=> event.price * 100 > event.last * DipPctMod)
    /\ (impl = "mod" /\ event.kind = "filter") =>
          \A s \in Syms :
             event.price[s] # NoPrice =>
                (InSeq("no-dip", event.reasons[s])
                   <=> event.price[s] * 100 > last_price[s] * DipPctMod)
    /\ \A p \in DipPrices, l \in DipPrices :
          /\ DipOkMono(p, l) <=> p * 100 <= l * DipPctMono
          /\ ("no-dip" \in ScanReasonsMono(TRUE, p, 1000, l, DepthFloor))
                <=> ~DipOkMono(p, l)
          /\ InSeq("no-dip", GenEntry(p, l, 0, 1000, 1000, 0, 0, NoPeak).reasons)
                <=> p * 100 > l * DipPctMod
          /\ InSeq("no-dip", FilterReasons(p, 0, 1000, l, DepthFloor))
                <=> p * 100 > l * DipPctMod

\* The monolith buys at a price exactly at last price x threshold.
C17_Witness ==
    /\ impl = "mono" /\ HasBuy
    /\ event.price > 0
    /\ event.price * 100 = event.last * DipPctMono

\* generate_actions proposes an entry at a price exactly at the threshold.
C17_WitnessMod ==
    /\ impl = "mod" /\ HasBuy
    /\ event.price * 100 = event.last * DipPctMod

\* C18: when a cycle begins, the stored last price of an instrument is the
\* price observed for it in the cycle before, whether or not it passed the
\* filters or traded: the last price of the instrument the cycle fetched a
\* price for last is that price.
C18_LastPriceRefreshed ==
    (impl = "mono" /\ pc = "start" /\ cycle >= 1 /\ fetched.sym # 0)
        => last_price[fetched.sym] = fetched.price

ExitEvaluation(s) ==
    /\ impl = "mod"
    /\ event' # event
    /\ event'.kind = "eval" /\ event'.branch = "exit" /\ event'.exec = "none"
    /\ event'.sym = s

\* C20: each evaluation of an open position stores max(previous peak,
\* price) as the peak, the previous peak defaulting to the entry or average
\* price, and max(previous stop, peak x (1 - trail fraction)) as the stop;
\* the peak never decreases while the position is open and is at or above
\* the price of the evaluation.
C20_RatchetStep ==
    [][\A s \in Syms :
          ExitEvaluation(s) =>
             LET pos  == positions[s]
                 prev == IF peak_cache[s] = NoPeak THEN EntryOf(pos)
                         ELSE peak_cache[s]
                 p    == event'.price * Milli
             IN  /\ peak_cache'[s] = Max(prev, p)
                 /\ positions'[s].sl =
                       Max(pos.sl, (peak_cache'[s] * (100 - TRAIL_PCT)) \div 100)
                 /\ peak_cache[s] # NoPeak => peak_cache'[s] >= peak_cache[s]
                 /\ peak_cache'[s] >= p]_vars

\* A position is evaluated at a price under the peak an earlier evaluation
\* recorded above its entry price: the peak stays.
C20_Witness ==
    /\ impl = "mod" /\ Evaluated /\ event.branch = "exit" /\ event.exec = "none"
    /\ positions[event.sym] # NoPos
    /\ peak_cache[event.sym] > event.price * Milli
    /\ peak_cache[event.sym] > EntryOf(positions[event.sym])

\* The latest step left the outcome of a call of generate_actions that
\* returned.
Generated == impl = "mod" /\ Evaluated

\* C21: whatever the instrument and the state, generate_actions returns at
\* most one TradeAction, and either exactly one action with an empty list of
\* reasons or no action with a list of reasons that is not empty: never no
\* action and no reason.
C21_SingleOutcome ==
    Generated =>
       /\ Len(event.actions) <= 1
       /\ \/ Len(event.actions) = 1 /\ event.reasons = <<>>
          \/ event.actions = <<>> /\ event.reasons # <<>>

\* An entry is refused for two reasons at once, and no action is returned.
C21_Witness ==
    /\ Generated /\ event.branch = "entry"
    /\ event.actions = <<>>
    /\ Len(event.reasons) = 2

\* The loop has ended on a KeyboardInterrupt.
Stopped == impl = "mono" /\ pc = "stopped"

\* C22: an interrupt never takes effect between the acceptance of an order
\* by the exchange and the update of the memory that belongs to it: when the
\* loop has stopped, the positions it is left with (the ones the handler
\* logs) agree with the order the exchange accepted last, a position of the
\* bought quantity after a buy and no position after a sell.
C22_InterruptAtBoundary ==
    (Stopped /\ Evaluated /\ event.exec = "ok") =>
        /\ HasBuy => /\ positions[event.sym] # NoPos
                     /\ positions[event.sym].amount = event.actions[1].qty
        /\ HasSell => positions[event.sym] = NoPos

\* The step is a gateway call that raises in the cycle.
CycleFails == event' # event /\ event'.kind = "error"

\* C28: an exception other than the interrupt, raised by a gateway call at
\* any point of a cycle, is caught by the main loop; the handler waits the
\* poll interval and the loop goes on with the head of a new cycle, with the
\* positions map that was in effect when the call raised; the loop ends on
\* an interrupt only.
C28_FailureSurvived ==
    /\ [][CycleFails => pc' = "failed"]_vars
    /\ [][(impl = "mono" /\ pc = "failed" /\ ~sigint')
             => (pc' = "start" /\ positions' = positions)]_vars
    /\ [][(impl = "mono" /\ pc = "start" /\ pc' = "scan")
             => positions' = positions]_vars
    /\ [](pc = "stopped" => sigint)

\* A cycle has failed with a position open and the next cycle is under way.
C28_Witness ==
    /\ impl = "mono" /\ pc = "scan"
    /\ event.kind = "error" /\ cycle > event.cycle
    /\ \E s \in Syms : positions[s] # NoPos

\* An entry was sized with a volatility of zero.
SizedAtZero == Evaluated /\ event.branch = "entry" /\ event.vol = 0

\* C24: with fewer than 2 candles atr is 0 and no error; an entry evaluated
\* with an atr of 0 has its stop at the entry price and a sized quantity of
\* 0, and therefore comes to no buy: generate_actions gives the reason
\* "qty<minlot".
C24_ZeroVolatility ==
    /\ \A ohlc \in BarSeries : Len(ohlc) < 2 => Atr(ohlc) = 0
    /\ \A p \in Prices, eq \in {c + w : c \in CashVals, w \in WalletVals} :
          /\ StopMono(p, 0) = p * Milli
          /\ PosSize(p * Milli, StopMono(p, 0), eq, RiskPctMono).num = 0
          /\ PosSize(p * Milli, p * Milli, eq, RiskPctMod).num = 0
    /\ SizedAtZero =>
          /\ event.actions = <<>>
          /\ impl = "mod" => event.reasons = <<"qty<minlot">>

\* generate_actions has refused, for the quantity alone, an entry sized with
\* a volatility of zero that the cash would have paid for.
C24_Witness ==
    /\ impl = "mod" /\ SizedAtZero
    /\ event.price > 0 /\ event.cash >= MinLot * event.price
    /\ event.reasons = <<"qty<minlot">>

\* The monolith has skipped the buy of an entry sized with a volatility of
\* zero.
C24_WitnessMono ==
    /\ impl = "mono" /\ SizedAtZero
    /\ event.price > 0 /\ event.cash >= MinLot * event.price
    /\ event.actions = <<>>

\* The step is a call of update_depth_ema for s: in the scan of the
\* monolith, or in filter_tradeable for a symbol that has a price.
DepthUpdated(s) ==
    \/ impl = "mono" /\ pc = "scan" /\ fetched' # fetched /\ fetched'.sym = s
    \/ impl = "mod" /\ event' # event /\ event'.kind = "filter"
          /\ event'.price[s] # NoPrice

\* The book total the call summed.
DepthTotal(s) == IF impl = "mono" THEN fetched'.total ELSE event'.total[s]

GenStep ==
    /\ impl = "mod"
    /\ event' # event
    /\ \/ event'.kind = "raise"
       \/ event'.kind = "eval" /\ event'.exec = "none"

\* The call of the step changed nothing.
NoEffect == positions' = positions /\ peak_cache' = peak_cache

\* C29: generate_actions(sym, ...) changes nothing but the stop of sym's own
\* position and the peak-cache entry of sym: no position's quantity, entry
\* or average price or target changes, no position is added or removed, no
\* other instrument's position or peak is touched, and for a flat
\* instrument or a price that is not available (reason "no-price") no state
\* changes at all.
C29_DecisionFrame ==
    [][GenStep =>
          LET s == event'.sym IN
          /\ \A r \in Syms \ {s} :
                positions'[r] = positions[r] /\ peak_cache'[r] = peak_cache[r]
          /\ (positions'[s] = NoPos) <=> (positions[s] = NoPos)
          /\ positions[s] # NoPos =>
                positions'[s] = [positions[s] EXCEPT !.sl = positions'[s].sl]
          /\ positions[s] = NoPos => NoEffect
          /\ event'.kind = "raise" => NoEffect
          /\ (event'.kind = "eval" /\ event'.reasons = <<"no-price">>) => NoEffect
          /\ UNCHANGED <<last_price, cash, equity, open_n, tradeable, depth_ema,
                         nsyms, cycle>>]_vars

\* One instrument's position has had its stop lifted and its peak recorded
\* by an evaluation, next to another instrument that holds a position and
\* has no peak entry yet.
C29_Witness ==
    /\ impl = "mod" /\ nsyms = 2
    /\ Evaluated /\ event.branch = "exit" /\ event.exec = "none"
    /\ positions[event.sym] # NoPos
    /\ positions[event.sym].sl = (peak_cache[event.sym] * (100 - TRAIL_PCT)) \div 100
    /\ \E r \in Syms \ {event.sym} :
          positions[r] # NoPos /\ peak_cache[r] = NoPeak

\* generate_actions has left a position open with "no-exit-signal".
HeldOpen ==
    /\ impl = "mod" /\ Evaluated /\ event.exec = "none"
    /\ event.reasons = <<"no-exit-signal">>

\* C30: whenever generate_actions leaves an open position with the reason
\* "no-exit-signal", the state after the evaluation has stop < price <
\* target and stop >= peak x (1 - trail fraction); so a price that has
\* fallen from the recorded peak by the trail fraction or more always gives
\* a sell in that evaluation.
C30_InsideBand ==
    /\ HeldOpen =>
          LET pos == positions[event.sym]
              p   == event.price * Milli
          IN  /\ pos # NoPos
              /\ pos.sl < p /\ p < pos.tp
              /\ pos.sl * 100 >= peak_cache[event.sym] * (100 - TRAIL_PCT)
    /\ (impl = "mod" /\ Evaluated /\ event.branch = "exit" /\ event.exec = "none"
           /\ event.price * Milli * 100
                 <= peak_cache[event.sym] * (100 - TRAIL_PCT))
          => HasSell

\* A position is held after its price rose over the entry: the stop has
\* been lifted to exactly peak x (1 - trail fraction).
C30_Witness ==
    /\ HeldOpen
    /\ peak_cache[event.sym] > EntryOf(positions[event.sym])
    /\ positions[event.sym].sl * 100 = peak_cache[event.sym] * (100 - TRAIL_PCT)

\* The price has fallen from the peak by more than the trail fraction and
\* the evaluation proposes the stop-loss sell.
C30_WitnessSell ==
    /\ impl = "mod" /\ HasSell /\ event.exec = "none"
    /\ event.actions[1].tag = "SL"
    /\ positions[event.sym] # NoPos
    /\ peak_cache[event.sym] > EntryOf(positions[event.sym])
    /\ event.price * Milli * 100 < peak_cache[event.sym] * (100 - TRAIL_PCT)

\* The step clears the position of s on a sell the exchange accepted: the
\* maintenance pass of the monolith after safe_market_sell answered True, or
\* the close of the position after safe_limit_sell answered True.
ExitCleared(s) ==
    /\ positions[s] # NoPos /\ positions'[s] = NoPos
    /\ event'.kind = "eval" /\ event'.sym = s
    /\ event'.actions # <<>> /\ event'.actions[1].side = "sell"
    /\ event'.exec = "ok"

\* The quantity of the sell order the exchange accepted.
Submitted(ev) == IF impl = "mono" THEN ev.actions[1].qty ELSE ev.sold

\* C31: whenever an exit succeeds and the position is cleared, the quantity
\* submitted for sale is the recorded quantity of the position, so that no
\* part of the holding stays in the wallet without a tracked position.
C31_FullExit ==
    [][\A s \in Syms :
          ExitCleared(s) => Submitted(event') = positions[s].amount]_vars

(***************************************************************************)
(*             Claims about the replay of an oversold history              *)
(***************************************************************************)
\* The quantity held after the first k fills when a sell can take no more
\* than what is held.
RECURSIVE ClampedNet(_, _)
ClampedNet(ts, k) ==
    IF k = 0 THEN 0
    ELSE IF ts[k].side = "buy"
         THEN ClampedNet(ts, k - 1) + ts[k].amount
         ELSE Max(0, ClampedNet(ts, k - 1) - ts[k].amount)

\* Fill k is a sell larger than the queue it meets (the empty queue included).
Oversold(ts, k) ==
    ts[k].side = "sell" /\ ts[k].amount > ClampedNet(ts, k - 1)

\* C32: in the replay of any fill sequence, with sells that meet an empty
\* queue or a queue smaller than the sell, every lot of the queue has a
\* strictly positive quantity after every fill, the residual quantity is
\* never negative, and the unmatched part of such a sell is discarded: the
\* queue is empty after it and the lots bought later are kept in full.
C32_OversoldReplay ==
    /\ \A i \in 1..Len(inventory) : inventory[i][1] > 0
    /\ SumQty(inventory) >= 0
    /\ SumQty(inventory) = ClampedNet(trades, t_next - 1)
    /\ \A k \in 1..(t_next - 1) :
          Oversold(trades, k) =>
              inventory = ReplayAll(SubSeq(trades, k + 1, t_next - 1), <<>>)
    /\ Returned => hist_result.qty = SumQty(inventory) /\ hist_result.qty >= 0

\* A buy, a larger sell and a later buy have been replayed: the queue holds
\* the later buy alone, in full.
C32_Witness ==
    /\ Returned /\ Len(trades) = 3
    /\ trades[1].side = "buy" /\ Oversold(trades, 2) /\ trades[3].side = "buy"
    /\ inventory = <<(<<trades[3].amount, trades[3].price>>)>>

\* A sell has met the empty queue and a buy after it is held in full.
C32_WitnessEmpty ==
    /\ t_next = 3
    /\ trades[1].side = "sell" /\ trades[2].side = "buy"
    /\ SumQty(inventory) = trades[2].amount

(***************************************************************************)
(*                     Claims about fetch_all_trades                       *)
(***************************************************************************)
PagesReturned == page_out # NoResult

Ascending(ts) ==
    \A i \in 1..(Len(ts) - 1) : ts[i].timestamp <= ts[i + 1].timestamp

\* Every fill of the list all is in ts, once.
EachOnce(ts, all) ==
    /\ Len(ts) = Len(all)
    /\ \A i \in 1..Len(all) :
          Cardinality({j \in 1..Len(ts) : ts[j] = all[i]}) = 1

\* C23: fetch_all_trades makes at most max_pages page requests, makes none
\* after the first empty page or the first page shorter than a full page,
\* returns (never raises) when the cap is reached, and, when the history has
\* fewer fills than a full page x max_pages, returns every fill exactly once,
\* in the order of the timestamps.
C23_Pagination ==
    /\ [](pager # NoResult =>
            /\ pager.n <= MaxPages
            /\ (pager.n > 0 /\ pager.last < PageLen) => pager.done)
    /\ [][(pager # NoResult /\ pager.done) => pager'.n = pager.n]_vars
    /\ [][(pager # NoResult /\ page_out = NoResult
             /\ (pager.done \/ pager.n = MaxPages) /\ page_out' # page_out)
          => page_out'.kind = "ok"]_vars
    /\ [](PagesReturned =>
            /\ page_out.kind = "ok"
            /\ Ascending(page_out.trades)
            /\ Len(ledger) < PageLen * MaxPages
                  => EachOnce(page_out.trades, ledger))

\* A history one fill short of the cap, served latest fill first, has been
\* fetched in max_pages requests, the last page a short one.
C23_Witness ==
    /\ PagesReturned
    /\ Len(ledger) = PageLen * MaxPages - 1
    /\ pager.n = MaxPages /\ pager.done
    /\ ledger[1].timestamp > ledger[Len(ledger)].timestamp
    /\ page_out.trades # ledger

\* The cap is reached amid the history: the call returns what it has.
C23_WitnessCap ==
    /\ PagesReturned /\ page_out.kind = "ok"
    /\ pager.n = MaxPages /\ ~pager.done
    /\ Len(ledger) > PageLen * MaxPages
    /\ Len(page_out.trades) = PageLen * MaxPages

(***************************************************************************)
(*                    Claims about the sizing helpers                      *)
(***************************************************************************)
Rounded == calc_in.fn = "round_qty" /\ calc_out # NoResult
Sized   == calc_in.fn = "pos_size" /\ calc_out # NoResult

\* C14: for every raw quantity >= 0 and lot step > 0 the rounded quantity is
\* at most the raw quantity, a whole multiple of the lot step, and less than
\* one lot step under the raw quantity.
C14_LotRounding ==
    Rounded =>
       LET q == calc_in.qty
           r == calc_out.value
       IN  /\ r * q.den <= q.num
           /\ r % calc_in.lot = 0
           /\ q.num - r * q.den < calc_in.lot * q.den

\* A quantity between two multiples of a lot step of 3 is rounded to the lower.
C14_Witness ==
    /\ Rounded
    /\ calc_in.lot = 3
    /\ calc_out.value > 0
    /\ calc_out.value * calc_in.qty.den < calc_in.qty.num
    /\ 2 * (calc_in.qty.num - calc_out.value * calc_in.qty.den)
          > calc_in.lot * calc_in.qty.den

FracLess(a, b) == a.num * b.den < b.num * a.den

RECURSIVE Gcd(_, _)
Gcd(a, b) == IF b = 0 THEN a ELSE Gcd(b, a % b)

\* The fraction in lowest terms.
Lowest(f) == LET g == Gcd(f.num, f.den) IN Frac(f.num \div g, f.den \div g)

\* What pos_size returns is 0 for entry = stop and equity x risk fraction /
\* |entry - stop| otherwise (the distance in whole dollars here); entry 100,
\* stop 95, equity 10000 and a fraction of 0.02 give 40.
SizeValue ==
    LET unit == Abs(calc_in.entry - calc_in.stop)
        v    == Lowest(calc_out.value)
    IN  /\ unit = 0 => v.num = 0
        /\ v.den > 0
        /\ unit # 0 =>
              FracEq(v, Frac(calc_in.equity * calc_in.pct, 100 * (unit \div Milli)))
        /\ (calc_in.stop = 95 * Milli /\ calc_in.equity = 10000
               /\ calc_in.pct = RiskPctMono) => v = Frac(40, 1)

\* A stop further from the entry gives a strictly smaller size.
SizeDecreasing ==
    \A stop2 \in SizeStops :
       (Abs(calc_in.entry - stop2) > Abs(calc_in.entry - calc_in.stop)
          /\ calc_in.entry # calc_in.stop)
       => FracLess(Lowest(PosSize(calc_in.entry, stop2, calc_in.equity,
                                  calc_in.pct)),
                   Lowest(calc_out.value))

\* C15 as stated: pos_size returns 0 when entry = stop and equity x risk
\* fraction / |entry - stop| otherwise, which for fixed equity and risk
\* fraction is strictly decreasing in |entry - stop|; entry 100, stop 95,
\* equity 10000 and fraction 0.02 give 40.
C15_RiskSizing == Sized => SizeValue /\ SizeDecreasing

\* C15 as amended: pos_size returns 0 when entry = stop and equity x risk
\* fraction / |entry - stop| otherwise, which for fixed equity > 0 and risk
\* fraction is strictly decreasing in |entry - stop| (with equity 0 the size
\* is 0 at every distance); entry 100, stop 95, equity 10000 and fraction
\* 0.02 give 40.
C15_RiskSizingPositive ==
    Sized => SizeValue /\ (calc_in.equity > 0 => SizeDecreasing)

\* The example of the claim has been computed.
C15_Witness ==
    /\ Sized
    /\ calc_in.stop = 95 * Milli /\ calc_in.equity = 10000
    /\ calc_in.pct = RiskPctMono
    /\ calc_out.value.num # 0

(***************************************************************************)
(*                   Claims about the portfolio figures                    *)
(***************************************************************************)
Measured == calc_in.fn = "metrics" /\ calc_out # NoResult

\* The cost basis of the positions, in thousandths: sum(quantity x average
\* cost).
RECURSIVE CostBasis(_)
CostBasis(pos) ==
    IF pos = <<>> THEN 0
    ELSE (IF pos[1] # NoPos THEN pos[1].amount * pos[1].entry ELSE 0)
         + CostBasis(Tail(pos))

\* The value of the positions at the prices, in thousandths.
RECURSIVE MarkToMarket(_, _)
MarkToMarket(pos, price) ==
    IF pos = <<>> THEN 0
    ELSE (IF pos[1] # NoPos THEN pos[1].amount * price[1] * Milli ELSE 0)
         + MarkToMarket(Tail(pos), Tail(price))

\* The wallet holds what the positions record, and nothing else.
WalletIsPositions ==
    \A i \in 1..Len(calc_in.held) :
       calc_in.held[i] = IF calc_in.pos[i] # NoPos THEN calc_in.pos[i].amount ELSE 0

\* C26: the unrealized P&L of a cycle is equity - (cash + cost_basis), that
\* is, the sum over the held positions of quantity x price minus quantity x
\* average cost.
C26_UnrealizedPnl ==
    Measured =>
       /\ calc_out.unreal * Milli
             = (calc_out.equity - calc_in.cash) * Milli - CostBasis(calc_in.pos)
       /\ WalletIsPositions =>
             calc_out.unreal * Milli
                = MarkToMarket(calc_in.pos, calc_in.price) - CostBasis(calc_in.pos)

====
